---- MODULE Spec2Model ----
(***************************************************************************)
(* Model of the title-suggestion service: the response normalization       *)
(* layer of src/app/api/public/titles/route.ts (normalizeTitlesFromJson)   *)
(* and the request handlers of the public and the internal endpoint.       *)
(*                                                                         *)
(* JavaScript values are tagged tuples:                                    *)
(*   <<"undefined">>, <<"null">>, <<"bool", b>>, <<"num", n>>,             *)
(*   <<"str", chars>>   a string the code looks into, as a sequence of     *)
(*                      one-character strings,                             *)
(*   <<"arr", elems>>   an array,                                          *)
(*   <<"obj", pairs>>   an object, as the sequence of its <<key, value>>   *)
(*                      pairs in the order Object.values lists them.       *)
(***************************************************************************)
EXTENDS Integers, Sequences, FiniteSets, TLC

VARIABLES
  payload,       \* normalization: the parsed payload handed to normalizeTitlesFromJson
  normalized,    \* normalization: the list it returned
  renormalized,  \* normalization: the list returned for {titles: normalized}
  phase,         \* normalization: "input", "normalized" or "renormalized"
  apiKey,        \* process.env.GEMINI_API_KEY
  route,         \* per request: the handler it reached, "none" before it arrives
  reqBody,       \* per request: the body it carries
  pc,            \* per request: "idle", "awaiting" (the model call is out) or "done"
  outcome,       \* per request: what the model call gave, returned or thrown
  calls,         \* per request: the model calls issued, in order
  steps,         \* per request: the steps of the pipeline run, in order
  responses,     \* per request: the responses sent, in order
  events,        \* history: the model calls issued and the responses sent, in order
  modelResp,     \* text pipeline: the value handed to extractText
  extractor,     \* text pipeline: the route whose extractText ran, "none" before
  extracted,     \* text pipeline: the value extractText returned
  parsedValue,   \* text pipeline: tryParseJson(stripped) ?? tryParseJson(text)
  textPhase,     \* text pipeline: "input", "extracted", "parsed" or "raised"
  fetched,       \* page: what fetch("/api/suggest") gives
  loading,       \* page: useState(false)
  pageError,     \* page: the error state, null or a message
  rawResponse,   \* page: the rawResponse state, null, a string or the JSON data
  pageTitles,    \* page: the titles state
  pagePc         \* page: "idle", "fetching" or "settled"

normVars == <<payload, normalized, renormalized, phase>>
reqVars == <<apiKey, route, reqBody, pc, outcome, calls, steps, responses, events>>
textVars == <<modelResp, extractor, extracted, parsedValue, textPhase>>
pageVars == <<fetched, loading, pageError, rawResponse, pageTitles, pagePc>>
vars == <<normVars, reqVars, textVars, pageVars>>

\* ------------------------------------------------------------ bounds
\* most entries of a multi-entry titles value (array elements, comma segments)
MaxElems == 3
\* how far beyond the cut the long sample titles reach
MaxOver == 1
\* requests in flight at once
MaxReqs == 1
\* requests in flight at once in the runs that interleave them
MaxConc == 2

\* ------------------------------------------------------------ program constants
\* t.length > 45 ? t.slice(0, 45).trim() : t
MaxTitleLen == 45

\* ------------------------------------------------------------ JavaScript values
Undefined == <<"undefined">>
Null == <<"null">>
Bool(b) == <<"bool", b>>
Num(n) == <<"num", n>>
Str(s) == <<"str", s>>
Arr(a) == <<"arr", a>>
Obj(p) == <<"obj", p>>

Tag(v) == v[1]
Val(v) == v[2]

\* typeof v === "string"
IsString(v) == Tag(v) = "str"
\* Array.isArray(v)
IsArray(v) == Tag(v) = "arr"
\* v && typeof v === "object": an object or an array, never null
IsObjectLike(v) == Tag(v) \in {"obj", "arr"}
\* a ?? b
Coalesce(a, b) == IF Tag(a) \in {"undefined", "null"} THEN b ELSE a

RECURSIVE PairIndex(_, _, _)
PairIndex(pairs, key, i) ==
  IF i > Len(pairs) THEN 0
  ELSE IF pairs[i][1] = key THEN i
  ELSE PairIndex(pairs, key, i + 1)

\* r[key] on an object-like value: the named own property, else undefined
\* (an array has none of the property names the code reads)
Get(r, key) ==
  IF Tag(r) # "obj" THEN Undefined
  ELSE LET i == PairIndex(Val(r), key, 1)
       IN IF i = 0 THEN Undefined ELSE Val(r)[i][2]

\* Object.values(r): the values in key order; the elements of an array
ObjectValues(r) ==
  IF Tag(r) = "arr" THEN Val(r)
  ELSE [i \in 1..Len(Val(r)) |-> Val(r)[i][2]]

\* ------------------------------------------------------------ strings
WhiteSpace == {" ", "\t", "\n"}

\* String.prototype.trim: from the first to the last character that is not white space
Trim(s) ==
  LET keep == {i \in 1..Len(s) : s[i] \notin WhiteSpace}
  IN IF keep = {} THEN <<>>
     ELSE SubSeq(s, CHOOSE i \in keep : \A j \in keep : i <= j,
                    CHOOSE i \in keep : \A j \in keep : j <= i)

\* s.slice(0, n)
Slice(s, n) == SubSeq(s, 1, IF Len(s) < n THEN Len(s) ELSE n)

\* s.split(sep): the stretches between the separators, always at least one
Split(s, sep) ==
  LET at == {i \in 1..Len(s) : s[i] = sep}
      \* the position of the k-th separator; 0 before the first, Len(s)+1 after the last
      Pos(k) == IF k = 0 THEN 0
                ELSE IF k > Cardinality(at) THEN Len(s) + 1
                ELSE CHOOSE p \in at : Cardinality({q \in at : q < p}) = k - 1
  IN [k \in 1..(Cardinality(at) + 1) |-> SubSeq(s, Pos(k - 1) + 1, Pos(k) - 1)]

RECURSIVE Join(_, _)
Join(parts, sep) ==
  IF parts = <<>> THEN <<>>
  ELSE IF Len(parts) = 1 THEN parts[1]
  ELSE parts[1] \o sep \o Join(Tail(parts), sep)

Digit(d) == <<"0", "1", "2", "3", "4", "5", "6", "7", "8", "9">>[d + 1]

RECURSIVE Digits(_)
Digits(n) == IF n < 10 THEN <<Digit(n)>> ELSE Append(Digits(n \div 10), Digit(n % 10))

ObjectObject ==
  <<"[", "o", "b", "j", "e", "c", "t", " ", "O", "b", "j", "e", "c", "t", "]">>

\* String(v)
RECURSIVE ToStr(_)
ToStr(v) ==
  CASE Tag(v) = "str" -> Val(v)
    [] Tag(v) = "num" -> Digits(Val(v))
    [] Tag(v) = "bool" -> IF Val(v) THEN <<"t", "r", "u", "e">>
                          ELSE <<"f", "a", "l", "s", "e">>
    [] Tag(v) = "null" -> <<"n", "u", "l", "l">>
    [] Tag(v) = "undefined" -> <<"u", "n", "d", "e", "f", "i", "n", "e", "d">>
    [] Tag(v) = "obj" -> ObjectObject
    [] Tag(v) = "arr" ->
         Join([i \in 1..Len(Val(v)) |->
                 IF Tag(Val(v)[i]) \in {"null", "undefined"} THEN <<>>
                 ELSE ToStr(Val(v)[i])], <<",">>)

\* titles.filter(Boolean) on strings: the non-empty ones
NonEmpty(seq) == SelectSeq(seq, LAMBDA t : t # <<>>)

RECURSIVE DedupFrom(_, _)
DedupFrom(seq, seen) ==
  IF seq = <<>> THEN <<>>
  ELSE IF Head(seq) \in seen THEN DedupFrom(Tail(seq), seen)
  ELSE <<Head(seq)>> \o DedupFrom(Tail(seq), seen \cup {Head(seq)})

Reverse(s) == [i \in 1..Len(s) |-> s[Len(s) + 1 - i]]

\* keeps the last occurrence of each title instead of the first
DedupKeepLast(seq) == Reverse(DedupFrom(Reverse(seq), {}))

\* keeps every occurrence
DedupNothing(seq) == seq

\* Array.from(new Set(titles)): insertion order, first occurrence kept
Dedup(seq) == DedupFrom(seq, {})

\* ------------------------------------------------------------ normalizeTitlesFromJson
\* r["title"] ?? r["text"] ?? r["suggestion"]
TitleLikeField(r) ==
  Coalesce(Coalesce(Get(r, "title"), Get(r, "text")), Get(r, "suggestion"))

RECURSIVE FirstString(_)
\* Object.values(r).find((v) => typeof v === "string")
FirstString(vals) ==
  IF vals = <<>> THEN Undefined
  ELSE IF IsString(Head(vals)) THEN Head(vals)
  ELSE FirstString(Tail(vals))

\* the callback of src.map(...): the candidate title of one array element
ElementTitle(s) ==
  IF IsString(s) THEN Trim(Val(s))
  ELSE IF IsObjectLike(s) THEN
    LET val == TitleLikeField(s)
        anyString == FirstString(ObjectValues(s))
    IN IF IsString(val) THEN Trim(Val(val))
       ELSE IF IsString(anyString) THEN Trim(Val(anyString))
       ELSE Trim(ToStr(s))
  ELSE Trim(ToStr(s))

\* reads suggestions first
SourceValueSuggestionsFirst(json) ==
  LET obj == IF IsObjectLike(json) THEN json ELSE Obj(<<>>)
  IN Coalesce(Get(obj, "suggestions"), Get(obj, "titles"))

\* obj["titles"] ?? obj["suggestions"], obj being {} for a non-object payload
SourceValue(json) ==
  LET obj == IF IsObjectLike(json) THEN json ELSE Obj(<<>>)
  IN Coalesce(Get(obj, "titles"), Get(obj, "suggestions"))

\* the list built from src by its shape, before the uniform post-processing
RawTitles(src) ==
  IF IsString(src) THEN
    LET segs == Split(Val(src), ",")
    IN NonEmpty([i \in 1..Len(segs) |-> Trim(segs[i])])
  ELSE IF IsArray(src) THEN
    NonEmpty([i \in 1..Len(Val(src)) |-> ElementTitle(Val(src)[i])])
  ELSE IF IsObjectLike(src) THEN
    LET maybe == TitleLikeField(src)
    IN IF IsString(maybe) THEN <<Trim(Val(maybe))>> ELSE <<>>
  ELSE <<>>

\* keeps the empty strings
DropEmptyNothing(titles) == titles

\* .filter((t) => t.length > 0)
DropEmpty(titles) == SelectSeq(titles, LAMBDA t : Len(t) > 0)

\* returns the title uncut
TruncateNothing(t) == t

\* cuts without trimming the cut again
TruncateNoTrim(t) == IF Len(t) > MaxTitleLen THEN Slice(t, MaxTitleLen) ELSE t

\* t.length > 45 ? t.slice(0, 45).trim() : t
Truncate(t) == IF Len(t) > MaxTitleLen THEN Trim(Slice(t, MaxTitleLen)) ELSE t

\* titles.map(String).map(trim).filter(nonempty).map(truncate)
PostProcess(titles) ==
  LET trimmed == [i \in 1..Len(titles) |-> Trim(titles[i])]
      kept == DropEmpty(trimmed)
  IN [i \in 1..Len(kept) |-> Truncate(kept[i])]

normalizeTitlesFromJson(json) == Dedup(PostProcess(RawTitles(SourceValue(json))))

\* "toString" in r, for the own properties JSON.parse gives
HasOwnToString(r) == Tag(r) = "obj" /\ PairIndex(Val(r), "toString", 1) # 0

RECURSIVE StringRaises(_)
\* String(v) raises a TypeError: an object whose own toString is no function (no
\* value of a JSON document is one) cannot be converted to a primitive, and an
\* array joins the strings of its elements
StringRaises(v) ==
  CASE Tag(v) = "obj" -> HasOwnToString(v)
    [] Tag(v) = "arr" ->
         \E i \in 1..Len(Val(v)) :
           Tag(Val(v)[i]) \notin {"null", "undefined"} /\ StringRaises(Val(v)[i])
    [] OTHER -> FALSE

\* the callback of src.map(...) raises: it reaches String(s) and String(s) raises
ElementRaises(s) ==
  /\ IsObjectLike(s)
  /\ ~IsString(TitleLikeField(s))
  /\ ~IsString(FirstString(ObjectValues(s)))
  /\ StringRaises(s)

\* normalizeTitlesFromJson raises instead of returning a list
NormalizeRaises(json) ==
  LET src == SourceValue(json)
  IN IsArray(src) /\ \E i \in 1..Len(Val(src)) : ElementRaises(Val(src)[i])

\* the other copy of the public route: s?.title || s?.text || s?.suggestion || String(s)
LegacyField(s) ==
  LET Prop(key) == IF Tag(s) = "obj" THEN Get(s, key) ELSE Undefined
      Pick(a, b) == IF Tag(a) \in {"undefined", "null"} \/ a \in {Bool(FALSE), Num(0), Str(<<>>)}
                    THEN b ELSE a
  IN Pick(Pick(Pick(Prop("title"), Prop("text")), Prop("suggestion")), Str(ToStr(s)))

\* typeof s === "string" ? s.trim() : (s?.title || ... || String(s)).trim()
LegacyElementTitle(s) ==
  IF IsString(s) THEN Trim(Val(s)) ELSE Trim(Val(LegacyField(s)))

\* the callback raises: the field it picks has no trim, or String(s) raises
LegacyElementRaises(s) ==
  /\ ~IsString(s)
  /\ LET Prop(key) == IF Tag(s) = "obj" THEN Get(s, key) ELSE Undefined
         Falsy(a) == Tag(a) \in {"undefined", "null"} \/ a \in {Bool(FALSE), Num(0), Str(<<>>)}
     IN IF \A key \in {"title", "text", "suggestion"} : Falsy(Prop(key))
        THEN StringRaises(s)
        ELSE ~IsString(LegacyField(s))

\* the array path of the other copy of normalizeTitlesFromJson
LegacyArrayTitles(src) ==
  Dedup(PostProcess([i \in 1..Len(Val(src)) |-> LegacyElementTitle(Val(src)[i])]))

\* the array path of the other copy raises
LegacyArrayRaises(src) == \E i \in 1..Len(Val(src)) : LegacyElementRaises(Val(src)[i])

\* ------------------------------------------------------------ model output text
(***************************************************************************)
(* The text of a model response is <<"text", tokens>>. A token is          *)
(*   <<"c", ch>>  one character of a fence or of white space,              *)
(*   <<"j", v>>   the JSON document of the value v, spelled out,           *)
(*   <<"w", s>>   a run of other characters (prose): not JSON, not blank.  *)
(* Two documents never touch and no other token spells JSON, so a text is  *)
(* valid JSON exactly when, white space apart, it is one document.         *)
(* A callable property is <<"fn", result>>: what awaiting the call gives,  *)
(* Throw when the call throws or rejects.                                  *)
(***************************************************************************)
Text(t) == <<"text", t>>
Fn(result) == <<"fn", result>>
Throw == <<"throw">>
Ch(c) == <<"c", c>>
Doc(v) == <<"j", v>>
Word(s) == <<"w", s>>

Chars(cs) == [i \in 1..Len(cs) |-> Ch(cs[i])]

\* typeof v === "string", for the strings of a model response
IsText(v) == Tag(v) = "text"
IsFunction(v) == Tag(v) = "fn"
IsNullish(v) == Tag(v) \in {"undefined", "null"}

\* the truthiness of a value: if (v), !v, a || b
Truthy(v) ==
  CASE Tag(v) \in {"undefined", "null"} -> FALSE
    [] Tag(v) = "bool" -> Val(v)
    [] Tag(v) = "num" -> Val(v) # 0
    [] Tag(v) \in {"str", "text"} -> Val(v) # <<>>
    [] OTHER -> TRUE

\* a || b
Or(a, b) == IF Truthy(a) THEN a ELSE b

\* v?.[key]
OptGet(v, key) == IF IsNullish(v) THEN Undefined ELSE Get(v, key)

\* v[key], which throws a TypeError on null and undefined
GetOrThrow(v, key) == IF IsNullish(v) THEN Throw ELSE Get(v, key)

\* a[0]
First(a) == IF Val(a) = <<>> THEN Undefined ELSE Val(a)[1]

IsSpace(tok) == tok[1] = "c" /\ tok[2] \in WhiteSpace

\* s.trim() is not empty
NotBlank(t) == \E i \in 1..Len(t) : ~IsSpace(t[i])

RECURSIVE ToJson(_)
\* the value JSON.stringify spells out: properties holding functions or undefined
\* are left out, such array elements become null
ToJson(v) ==
  CASE Tag(v) = "obj" ->
         LET kept == SelectSeq(Val(v), LAMBDA p : Tag(p[2]) \notin {"fn", "undefined"})
         IN Obj([i \in 1..Len(kept) |-> <<kept[i][1], ToJson(kept[i][2])>>])
    [] Tag(v) = "arr" ->
         Arr([i \in 1..Len(Val(v)) |->
                IF Tag(Val(v)[i]) \in {"fn", "undefined"} THEN Null
                ELSE ToJson(Val(v)[i])])
    [] OTHER -> v

\* JSON.stringify(resp): a string, or undefined for undefined and for a function
JsonStringify(v) ==
  IF Tag(v) \in {"undefined", "fn"} THEN Undefined ELSE Text(<<Doc(ToJson(v))>>)

RECURSIVE ToTokens(_)
\* String(v) as text: null, numbers and booleans read as JSON, objects do not
ToTokens(v) ==
  CASE Tag(v) = "text" -> Val(v)
    [] Tag(v) \in {"null", "num", "bool"} -> <<Doc(v)>>
    [] Tag(v) = "undefined" -> <<Word("undefined")>>
    [] Tag(v) = "obj" -> <<Word("[object Object]")>>
    [] Tag(v) = "fn" -> <<Word("function")>>
    [] Tag(v) = "arr" ->
         Join([i \in 1..Len(Val(v)) |->
                 IF IsNullish(Val(v)[i]) THEN <<>> ELSE ToTokens(Val(v)[i])],
              <<Word(",")>>)

\* String(resp)
ToText(v) == Text(ToTokens(v))

\* ------------------------------------------------------------ extractText
\* parts.map(p => p && typeof p === "object" && typeof p.text === "string"
\*                  ? String(p.text) : "").filter(Boolean).join("\n")
JoinedParts(parts) ==
  LET texts == [i \in 1..Len(Val(parts)) |->
                  LET p == Val(parts)[i]
                  IN IF IsObjectLike(p) /\ IsText(Get(p, "text"))
                     THEN Val(Get(p, "text")) ELSE <<>>]
  IN Text(Join(NonEmpty(texts), <<Ch("\n")>>))

\* the candidates branch of the public extractText: the text it returns, Undefined
\* when it falls through, Throw when first["text"] is read on null or undefined
CandidateText(candidates) ==
  LET first == First(candidates)
      content == OptGet(first, "content")
      parts == OptGet(content, "parts")
      joined == IF IsArray(parts) THEN JoinedParts(parts) ELSE Text(<<>>)
      textField ==
        IF Truthy(content) /\ IsText(Get(content, "text")) THEN Get(content, "text")
        ELSE IF IsNullish(first) THEN Throw
        ELSE IF IsText(Get(first, "text")) THEN Get(first, "text")
        ELSE Text(<<>>)
  IN IF Truthy(joined) THEN joined
     ELSE IF textField = Throw THEN Throw
     ELSE IF NotBlank(Val(textField)) THEN textField
     ELSE Undefined

\* the body of the try block of the public extractText: the value returned, or Throw
ExtractTextTry(resp) ==
  LET r == resp
      isObject == IsObjectLike(r)
      responseObj == IF isObject THEN Get(r, "response") ELSE Undefined
      candidates == Or(OptGet(OptGet(r, "response"), "candidates"), OptGet(r, "candidates"))
      fromCandidates ==
        IF IsArray(candidates) /\ Val(candidates) # <<>>
        THEN CandidateText(candidates) ELSE Undefined
      contentObj == IF isObject THEN Get(r, "content") ELSE Undefined
      parts2 == OptGet(contentObj, "parts")
      joined2 == IF IsArray(parts2) THEN JoinedParts(parts2) ELSE Text(<<>>)
  IN IF isObject /\ IsFunction(Get(r, "text")) THEN Val(Get(r, "text"))
     ELSE IF Truthy(responseObj) /\ IsFunction(Get(responseObj, "text"))
       THEN Val(Get(responseObj, "text"))
     ELSE IF IsNullish(r) THEN Throw
     ELSE IF IsText(Get(r, "outputText")) THEN Get(r, "outputText")
     ELSE IF fromCandidates # Undefined THEN fromCandidates
     ELSE IF Truthy(joined2) THEN joined2
     ELSE IF IsText(resp) THEN resp
     ELSE JsonStringify(resp)

\* extractText of the public route: try { ... } catch { return String(resp) }
extractText(resp) ==
  LET got == ExtractTextTry(resp)
  IN IF got = Throw THEN ToText(resp) ELSE got

\* parts.map((p) => p?.text || "").filter(Boolean).join("\n") of the internal route:
\* every truthy text property is joined, a string or not
JoinedPartsLenient(parts) ==
  LET texts == [i \in 1..Len(Val(parts)) |-> OptGet(Val(parts)[i], "text")]
      kept == SelectSeq(texts, LAMBDA v : Truthy(v))
  IN Text(Join([i \in 1..Len(kept) |-> ToTokens(kept[i])], <<Ch("\n")>>))

\* the body of the try block of the internal extractText: the value returned, or Throw
ExtractTextTrySuggest(resp) ==
  LET candidates ==
        Or(OptGet(OptGet(resp, "response"), "candidates"), OptGet(resp, "candidates"))
      hasCandidates == IsArray(candidates) /\ Val(candidates) # <<>>
      content == IF hasCandidates THEN OptGet(First(candidates), "content") ELSE Undefined
      parts == OptGet(content, "parts")
      joined == IF IsArray(parts) THEN JoinedPartsLenient(parts) ELSE Text(<<>>)
      textField ==
        IF hasCandidates
        THEN Or(OptGet(content, "text"), OptGet(First(candidates), "text"))
        ELSE Undefined
      parts2 == OptGet(OptGet(resp, "content"), "parts")
      joined2 == IF IsArray(parts2) THEN JoinedPartsLenient(parts2) ELSE Text(<<>>)
  IN IF Truthy(resp) /\ IsFunction(Get(resp, "text")) THEN Val(Get(resp, "text"))
     ELSE IF Truthy(OptGet(resp, "response"))
             /\ IsFunction(Get(OptGet(resp, "response"), "text"))
       THEN Val(Get(OptGet(resp, "response"), "text"))
     ELSE IF IsText(OptGet(resp, "outputText")) THEN OptGet(resp, "outputText")
     ELSE IF Truthy(joined) THEN joined
     ELSE IF IsText(textField) /\ NotBlank(Val(textField)) THEN textField
     ELSE IF Truthy(joined2) THEN joined2
     ELSE IF IsText(resp) THEN resp
     ELSE JsonStringify(resp)

\* extractText of the internal route
extractTextSuggest(resp) ==
  LET got == ExtractTextTrySuggest(resp)
  IN IF got = Throw THEN ToText(resp) ELSE got

\* ------------------------------------------------------------ stripCodeFences, tryParseJson
\* the fence character (a string of the module cannot hold it)
Backtick == "backtick"

Lower(c) ==
  CASE c = "J" -> "j" [] c = "S" -> "s" [] c = "O" -> "o" [] c = "N" -> "n" [] OTHER -> c

\* t starts with the characters of word, letters in either case
StartsWith(t, word) ==
  /\ Len(t) >= Len(word)
  /\ \A i \in 1..Len(word) : t[i][1] = "c" /\ Lower(t[i][2]) = word[i]

\* s.replace(/^<word>\n?/i, "")
StripPrefix(t, word) ==
  IF ~StartsWith(t, word) THEN t
  ELSE LET rest == SubSeq(t, Len(word) + 1, Len(t))
       IN IF rest # <<>> /\ rest[1] = Ch("\n") THEN Tail(rest) ELSE rest

\* s.replace(/\n?```\s*$/i, "")
StripSuffix(t) ==
  LET solid == {i \in 1..Len(t) : ~IsSpace(t[i])}
      e == IF solid = {} THEN 0 ELSE CHOOSE i \in solid : \A j \in solid : j <= i
  IN IF e >= 3 /\ \A i \in (e - 2)..e : t[i] = Ch(Backtick)
     THEN IF e >= 4 /\ t[e - 3] = Ch("\n") THEN SubSeq(t, 1, e - 4)
          ELSE SubSeq(t, 1, e - 3)
     ELSE t

\* s.replace(/^<word>\n?/, ""), without the i flag
StripPrefixExact(t, word) ==
  IF Len(t) >= Len(word) /\ \A i \in 1..Len(word) : t[i] = Ch(word[i])
  THEN LET rest == SubSeq(t, Len(word) + 1, Len(t))
       IN IF rest # <<>> /\ rest[1] = Ch("\n") THEN Tail(rest) ELSE rest
  ELSE t

\* matches the json marker in lower case only
stripCodeFencesCaseSensitive(t) ==
  StripSuffix(StripPrefix(StripPrefixExact(t, <<Backtick, Backtick, Backtick, "j", "s", "o", "n">>),
                          <<Backtick, Backtick, Backtick>>))

stripCodeFences(t) ==
  StripSuffix(StripPrefix(StripPrefix(t, <<Backtick, Backtick, Backtick, "j", "s", "o", "n">>),
                          <<Backtick, Backtick, Backtick>>))

\* reads the first document of the text, whatever surrounds it
tryParseJsonLenient(t) ==
  LET docs == SelectSeq(t, LAMBDA tok : tok[1] = "j")
  IN IF docs # <<>> THEN docs[1][2] ELSE Null

\* try { return JSON.parse(s) } catch { return null }
tryParseJson(t) ==
  LET solid == SelectSeq(t, LAMBDA tok : ~IsSpace(tok))
  IN IF Len(solid) = 1 /\ solid[1][1] = "j" THEN solid[1][2] ELSE Null

\* tryParseJson(stripped) ?? tryParseJson(rawText)
ParsedPayload(rawText) ==
  Coalesce(tryParseJson(stripCodeFences(Val(rawText))), tryParseJson(Val(rawText)))

\* ------------------------------------------------------------ responses
\* a string the code passes on whole
Msg(m) == Text(<<Word(m)>>)

ALLOWED_ORIGIN == "*"

ModelName == "gemini-2.5-flash"

corsHeaders ==
  { <<"Access-Control-Allow-Origin", ALLOWED_ORIGIN>>,
    <<"Access-Control-Allow-Methods", "POST, OPTIONS">>,
    <<"Access-Control-Allow-Headers", "Content-Type, Authorization">> }

\* leaves the status out, so that every response is a 200
JsonResponseNoStatus(body, status, headers) ==
  [status |-> 200,
   headers |-> headers \cup {<<"content-type", "application/json">>},
   body |-> <<"json", body>>]

\* NextResponse.json(body, {status, headers})
JsonResponse(body, status, headers) ==
  [status |-> status,
   headers |-> headers \cup {<<"content-type", "application/json">>},
   body |-> <<"json", body>>]

\* new NextResponse(text, {status: 200, headers: {"Content-Type": "text/plain; ..."}})
PlainResponse(text) ==
  [status |-> 200,
   headers |-> {<<"content-type", "text/plain; charset=utf-8">>},
   body |-> <<"plain", text>>]

\* new NextResponse(null, {status: 204, headers: corsHeaders()})
PreflightResponse ==
  [status |-> 204, headers |-> corsHeaders, body |-> <<"none">>]

ErrorBody(message) == Obj(<< <<"error", message>> >>)

MissingKeyBody == ErrorBody(Msg("Missing GEMINI_API_KEY environment variable"))

\* the TypeError of s.replace(...) on a value that is no string
NotAStringError(v) ==
  Obj(<< <<"message",
           IF IsNullish(v) THEN Msg("Cannot read properties of undefined (reading 'replace')")
           ELSE Msg("s.replace is not a function")>> >>)

\* the TypeError of input.keywords.join(...) on a string
NoJoinError == Obj(<< <<"message", Msg("input.keywords.join is not a function")>> >>)

\* the TypeError of String(s) on an object that has no callable toString
NoPrimitiveError == Obj(<< <<"message", Msg("Cannot convert object to primitive value")>> >>)

\* "message" in err
HasOwn(v, key) == Tag(v) = "obj" /\ PairIndex(Val(v), key, 1) # 0

\* ------------------------------------------------------------ prompt
\* await req.json().catch(() => ({}))
ParseBody(b) == IF b = <<"unparseable">> THEN Obj(<<>>) ELSE b

\* the fields the public route reads off the body, each checked for its type
PublicInput(body) ==
  LET raw == IF IsObjectLike(body) THEN body ELSE Obj(<<>>)
      StringOf(key) == IF IsText(Get(raw, key)) THEN Get(raw, key) ELSE Undefined
      kw == Get(raw, "keywords")
  IN Obj(<< <<"description", StringOf("description")>>,
            <<"keywords", IF IsArray(kw) THEN Arr(SelectSeq(Val(kw), IsText))
                          ELSE Undefined>>,
            <<"niche", StringOf("niche")>>,
            <<"language", StringOf("language")>> >>)

\* const { description, keywords, niche, language } = body || {}
SuggestInput(body) ==
  LET raw == Or(body, Obj(<<>>))
  IN Obj(<< <<"description", Get(raw, "description")>>,
            <<"keywords", Get(raw, "keywords")>>,
            <<"niche", Get(raw, "niche")>>,
            <<"language", Get(raw, "language")>> >>)

\* buildUserPrompt: the lines of the prompt, or Throw when keywords has a length
\* and no join (a string)
buildUserPrompt(input) ==
  LET kw == Get(input, "keywords")
      hasKeywords == (IsArray(kw) \/ IsText(kw)) /\ Val(kw) # <<>>
      Line(key, label) ==
        IF Truthy(Get(input, key)) THEN << <<label, Get(input, key)>> >> ELSE <<>>
  IN IF hasKeywords /\ ~IsArray(kw) THEN Throw
     ELSE Line("description", "Description")
          \o (IF hasKeywords THEN << <<"Keywords", kw>> >> ELSE <<>>)
          \o Line("niche", "Niche")
          \o Line("language", "Language")
          \o << <<"Reminder", Msg("Respond in JSON only, no extra text.")>>,
                <<"Reminder", Msg("All titles must be <= 45 characters each.")>> >>

\* ------------------------------------------------------------ the handlers, step by step
\* answers without the CORS headers
PublicCatchNoCors(err) ==
  JsonResponse(
    ErrorBody(IF IsObjectLike(err) /\ HasOwn(err, "message")
              THEN ToText(Get(err, "message")) ELSE Msg("Unexpected error")),
    500, {})

\* catch (err) of the public POST
PublicCatch(err) ==
  JsonResponse(
    ErrorBody(IF IsObjectLike(err) /\ HasOwn(err, "message")
              THEN ToText(Get(err, "message")) ELSE Msg("Unexpected error")),
    500, corsHeaders)

\* catch (err) of the internal POST
SuggestCatch(err) ==
  JsonResponse(ErrorBody(Or(OptGet(err, "message"), Msg("Unexpected error"))), 500, {})

\* the 200 body of the public route
TitlesBody(titles) ==
  Obj(<< <<"titles", Arr([i \in 1..Len(titles) |-> Str(titles[i])])>>,
         <<"meta", Obj(<< <<"count", Num(Len(titles))>>,
                         <<"maxLength", Num(45)>>,
                         <<"model", Msg(ModelName)>> >>)>> >>)

\* if (!parsed)
IsUnparsed(parsed) == ~Truthy(parsed)

\* the public POST from the model's response to the end: the response sent and the
\* steps run
PublicAfterCall(resp) ==
  LET rawText == extractText(resp)
      parsed == ParsedPayload(rawText)
      titles == normalizeTitlesFromJson(parsed)
  IN IF ~IsText(rawText) THEN
       [response |-> PublicCatch(NotAStringError(rawText)),
        steps |-> <<"text-extraction", "respond">>]
     ELSE IF IsUnparsed(parsed) THEN
       [response |-> JsonResponse(
                       Obj(<< <<"error", Msg("Model returned non-JSON output")>>,
                              <<"raw", rawText>> >>), 502, corsHeaders),
        steps |-> <<"text-extraction", "json-decode", "respond">>]
     ELSE IF NormalizeRaises(parsed) THEN
       [response |-> PublicCatch(NoPrimitiveError),
        steps |-> <<"text-extraction", "json-decode", "normalize", "respond">>]
     ELSE IF titles = <<>> THEN
       [response |-> JsonResponse(
                       Obj(<< <<"error", Msg("No titles produced")>>,
                              <<"raw", parsed>> >>), 502, corsHeaders),
        steps |-> <<"text-extraction", "json-decode", "normalize", "respond">>]
     ELSE
       [response |-> JsonResponse(TitlesBody(titles), 200, corsHeaders),
        steps |-> <<"text-extraction", "json-decode", "normalize", "respond">>]

\* the internal POST from the model's response to the end
SuggestAfterCall(resp) ==
  LET text == extractTextSuggest(resp)
      parsed == ParsedPayload(text)
  IN IF ~IsText(text) THEN
       [response |-> SuggestCatch(NotAStringError(text)),
        steps |-> <<"text-extraction", "respond">>]
     ELSE IF parsed # Null THEN
       [response |-> JsonResponse(parsed, 200, {}),
        steps |-> <<"text-extraction", "json-decode", "respond">>]
     ELSE
       [response |-> PlainResponse(text),
        steps |-> <<"text-extraction", "json-decode", "respond">>]

\* ------------------------------------------------------------ sample payloads
Reqs == 1..MaxReqs

Rep(c, n) == [i \in 1..n |-> c]

SeqsUpTo(S, lo, hi) == UNION {[1..n -> S] : n \in lo..hi}

\* lengths of the filler of a long title: none, and around the cut
FillLens == {0} \cup ((MaxTitleLen - 1)..(MaxTitleLen + MaxOver))

\* prefix, filler (letters or blanks), suffix: titles of 0 to 45+ characters with
\* white space and commas at the ends and at the cut
SampleStrings ==
  {pre \o Rep(f, n) \o post :
     pre \in {<<>>, <<" ">>, <<"a">>},
     f \in {"x", " "},
     n \in FillLens,
     post \in {<<>>, <<" ">>, <<"b">>, <<" ", "b">>, <<",", "b">>}}

\* the segments of the multi-segment strings: equal after trimming, equal after the cut
CoreStrings ==
  { <<>>, <<"a">>, <<" ", "a">>, <<"b", "\t">>,
    Rep("x", MaxTitleLen), Rep("x", MaxTitleLen + 1),
    Rep("x", MaxTitleLen - 1) \o <<" ", "b">> }

\* array elements of every type the element callback tells apart
ElemKinds ==
  { Str(<<"a", ",", "b">>),
    Str(<<"a">> \o Rep(" ", MaxTitleLen) \o <<"b">>),
    Obj(<< <<"text", Str(<<" ", "b">>)>>, <<"suggestion", Str(<<"a">>)>> >>),
    Obj(<< <<"title", Null>>, <<"suggestion", Str(<<"c">>)>> >>),
    Obj(<< <<"title", Num(1)>>, <<"name", Str(<<"b">>)>> >>),
    Obj(<< <<"id", Num(1)>>, <<"name", Str(<<"c", " ">>)>>, <<"alt", Str(<<"a">>)>> >>),
    Obj(<< <<"title", Str(Rep("x", MaxTitleLen + 1))>> >>),
    Obj(<<>>),
    Num(7), Bool(TRUE),
    Arr(<<>>),
    Arr(<<Num(1), Null, Str(<<"a">>)>>),
    Arr(<<Num(1), Null, Bool(FALSE)>>) }

\* the elements of the multi-element arrays
CoreElems ==
  {Str(s) : s \in CoreStrings} \cup
  { Obj(<< <<"title", Str(<<"a">>)>> >>),
    Obj(<< <<"id", Num(12)>> >>),
    Null }

\* the values of the titles / suggestions field
SampleSources ==
  {Str(s) : s \in SampleStrings} \cup
  {Arr(<<Str(s)>>) : s \in SampleStrings} \cup
  {Obj(<< <<"title", Str(s)>> >>) : s \in SampleStrings} \cup
  {Str(Join(segs, <<",">>)) : segs \in SeqsUpTo(CoreStrings, 2, MaxElems)} \cup
  {Arr(els) : els \in SeqsUpTo(CoreElems, 0, MaxElems)} \cup
  {Arr(<<e>>) : e \in ElemKinds} \cup
  {Arr(<<Str(<<"a">>), e, Str(<<"b">>)>>) : e \in ElemKinds} \cup
  { Obj(<< <<"text", Num(1)>>, <<"suggestion", Str(<<"a">>)>> >>),
    Obj(<< <<"name", Str(<<"a">>)>> >>),
    Null, Num(7), Bool(TRUE) }

\* a few sources for the payloads that carry them under suggestions
SuggestionSources ==
  { Str(<<"a", ",", " ", "b", ",", "a">>),
    Arr(<<Str(<<"a">>), Obj(<< <<"text", Str(<<"a", " ">>)>> >>)>>),
    Obj(<< <<"suggestion", Str(<<" ", "a">>)>> >>) }

SamplePayloads ==
  {Obj(<< <<"summary", Obj(<<>>)>>, <<"titles", src>> >>) : src \in SampleSources} \cup
  {Obj(<< <<"suggestions", src>> >>) : src \in SuggestionSources} \cup
  {Obj(<< <<"titles", Null>>, <<"suggestions", src>> >>) : src \in SuggestionSources} \cup
  {Obj(<< <<"titles", Str(<<"b">>)>>, <<"suggestions", src>> >>) : src \in SuggestionSources} \cup
  { Obj(<<>>), Null, Num(0), Bool(FALSE), Str(<<"a">>), Arr(<<Str(<<"a">>)>>),
    Obj(<< <<"summary", Obj(<<>>)>>,
           <<"titles", Str(<<"A", ",", " ", "B", ",", " ", "B", ",", " ", "C">>)>> >>),
    Obj(<< <<"titles", Str(<<>>)>>, <<"suggestions", Str(<<"a">>)>> >>),
    Obj(<< <<"titles", Num(5)>>, <<"suggestions", Str(<<"a">>)>> >>) }

\* ------------------------------------------------------------ normalization runs
\* none of the requests rs has arrived
NoneArrived(rs) ==
  /\ route = [r \in rs |-> "none"]
  /\ reqBody = [r \in rs |-> Undefined]
  /\ pc = [r \in rs |-> "idle"]
  /\ outcome = [r \in rs |-> <<"none">>]
  /\ calls = [r \in rs |-> <<>>]
  /\ steps = [r \in rs |-> <<>>]
  /\ responses = [r \in rs |-> <<>>]
  /\ events = <<>>

\* no request is being handled
NoRequests == NoneArrived(Reqs)

\* the text pipeline has not run
NoText ==
  /\ modelResp = Undefined
  /\ extractor = "none"
  /\ extracted = Undefined
  /\ parsedValue = Null
  /\ textPhase = "input"

\* the page as it is first rendered
NoPage ==
  /\ fetched = <<"none">>
  /\ loading = FALSE
  /\ pageError = Null
  /\ rawResponse = Null
  /\ pageTitles = <<>>
  /\ pagePc = "idle"

NormInit ==
  /\ payload \in SamplePayloads
  /\ normalized = <<>>
  /\ renormalized = <<>>
  /\ phase = "input"
  /\ apiKey = Undefined
  /\ NoRequests
  /\ NoText
  /\ NoPage

\* titles = normalizeTitlesFromJson(parsed)
Normalize ==
  /\ phase = "input"
  /\ normalized' = normalizeTitlesFromJson(payload)
  /\ phase' = "normalized"
  /\ UNCHANGED <<payload, renormalized>>
  /\ UNCHANGED <<reqVars, textVars, pageVars>>

\* the returned list handed back as {titles: [...]}
AsPayload(titles) ==
  Obj(<< <<"titles", Arr([i \in 1..Len(titles) |-> Str(titles[i])])>> >>)

Renormalize ==
  /\ phase = "normalized"
  /\ renormalized' = normalizeTitlesFromJson(AsPayload(normalized))
  /\ phase' = "renormalized"
  /\ UNCHANGED <<payload, normalized>>
  /\ UNCHANGED <<reqVars, textVars, pageVars>>

NormNext == Normalize \/ Renormalize

SpecNorm == NormInit /\ [][NormNext]_vars

\* ------------------------------------------------------------ array normalization runs
\* array elements of every JSON type
ArrayElems ==
  { Str(<<" ", "X", " ">>), Str(<<>>),
    Obj(<< <<"title", Str(<<"Y">>)>>, <<"text", Str(<<"Z">>)>> >>),
    Obj(<< <<"text", Str(<<"Z">>)>>, <<"name", Str(<<"N">>)>> >>),
    Obj(<< <<"suggestion", Str(<<"S", " ">>)>> >>),
    Obj(<< <<"id", Num(1)>>, <<"name", Str(<<"N">>)>>, <<"alt", Str(<<"M">>)>> >>),
    Obj(<< <<"title", Null>>, <<"text", Str(<<"Z">>)>> >>),
    Obj(<< <<"title", Num(5)>>, <<"name", Str(<<"N">>)>> >>),
    Obj(<< <<"title", Num(5)>> >>),
    Obj(<< <<"id", Num(1)>> >>),
    Obj(<< <<"toString", Num(1)>> >>),
    Obj(<< <<"toString", Num(1)>>, <<"title", Str(<<"Y">>)>> >>),
    Obj(<<>>),
    Num(7), Bool(FALSE), Null,
    Arr(<<Num(1), Num(2)>>),
    Arr(<<Obj(<< <<"toString", Null>> >>)>>) }

TitlesXYZ ==
  Obj(<< <<"titles", Arr(<<Str(<<"X">>), Obj(<< <<"title", Str(<<"Y">>)>> >>),
                          Obj(<< <<"text", Str(<<"Z">>)>> >>)>>)>> >>)

ArrayPayloads ==
  {Obj(<< <<"titles", Arr(els)>> >>) : els \in SeqsUpTo(ArrayElems, 0, MaxElems - 1)} \cup
  {TitlesXYZ}

ArrInit ==
  /\ payload \in ArrayPayloads
  /\ normalized = <<>>
  /\ renormalized = <<>>
  /\ phase = "input"
  /\ apiKey = Undefined
  /\ NoRequests
  /\ NoText
  /\ NoPage

\* normalizeTitlesFromJson(parsed) on an array, returning or raising
NormalizeArray ==
  /\ phase = "input"
  /\ IF NormalizeRaises(payload)
     THEN normalized' = <<>> /\ phase' = "raised"
     ELSE normalized' = normalizeTitlesFromJson(payload) /\ phase' = "normalized"
  /\ UNCHANGED <<payload, renormalized>>
  /\ UNCHANGED <<reqVars, textVars, pageVars>>

\* the other copy of normalizeTitlesFromJson on an array, returning or raising
NormalizeArrayLegacy ==
  /\ phase = "input"
  /\ IF LegacyArrayRaises(SourceValue(payload))
     THEN normalized' = <<>> /\ phase' = "legacy raised"
     ELSE /\ normalized' = LegacyArrayTitles(SourceValue(payload))
          /\ phase' = "legacy normalized"
  /\ UNCHANGED <<payload, renormalized>>
  /\ UNCHANGED <<reqVars, textVars, pageVars>>

ArrNext == NormalizeArray \/ NormalizeArrayLegacy

SpecArr == ArrInit /\ [][ArrNext]_vars

\* ------------------------------------------------------------ sample requests and model responses
\* unset, empty, set
ApiKeys == {Undefined, Text(<<>>), Msg("key")}

FullBody ==
  Obj(<< <<"description", Msg("a video about cats")>>,
         <<"keywords", Arr(<<Msg("cats"), Num(1), Msg("pets")>>)>>,
         <<"niche", Msg("animals")>>,
         <<"language", Num(2)>> >>)

\* a body that is no JSON, and one with fields of the right and of the wrong type
PublicBodies == {<<"unparseable">>, FullBody}

\* the same, and one whose keywords is a string
SuggestBodies ==
  PublicBodies \cup
  {Obj(<< <<"description", Msg("a video about cats")>>, <<"keywords", Msg("cats, pets")>> >>)}

LongTitle == Rep("x", MaxTitleLen + 1)

TitlesABBC ==
  Obj(<< <<"summary", Obj(<<>>)>>,
         <<"titles", Str(<<"A", ",", " ", "B", ",", " ", "B", ",", " ", "C">>)>> >>)

\* the JSON documents a model text spells: payloads with titles, without, and
\* values that are no object
SampleDocs ==
  { TitlesABBC,
    Obj(<< <<"titles", Str(<<>>)>> >>),
    Obj(<< <<"titles", Arr(<<Str(<<"X">>), Obj(<< <<"title", Str(<<"Y">>)>> >>),
                            Obj(<< <<"text", Str(<<"Z">>)>> >>)>>)>> >>),
    Obj(<< <<"titles", Str(LongTitle \o <<",">> \o LongTitle \o <<"b">>)>> >>),
    Obj(<< <<"suggestions", Arr(<<Str(<<" ", "a">>)>>)>> >>),
    Obj(<< <<"titles", Arr(<<>>)>> >>),
    Obj(<< <<"titles", Arr(<<Str(<<"a">>), Obj(<< <<"toString", Num(1)>> >>)>>)>> >>),
    Obj(<<>>), Arr(<<Str(<<"a">>)>>), Arr(<<>>),
    Null, Num(0), Num(7), Bool(FALSE), Bool(TRUE), Str(<<>>), Str(<<"a">>) }

FencedDocs == {TitlesABBC, Obj(<< <<"titles", Str(<<>>)>> >>), Num(0)}

FenceJson == Chars(<<Backtick, Backtick, Backtick, "j", "s", "o", "n">>)
FenceJsonUpper == Chars(<<Backtick, Backtick, Backtick, "J", "S", "O", "N">>)
Fence == Chars(<<Backtick, Backtick, Backtick>>)
NewLine == <<Ch("\n")>>

\* texts: a bare document, fenced documents, prose, blanks, fences around prose
SampleTexts ==
  {<<Doc(d)>> : d \in SampleDocs} \cup
  {FenceJson \o NewLine \o <<Doc(d)>> \o NewLine \o Fence : d \in FencedDocs} \cup
  {Fence \o <<Doc(d)>> \o Fence \o <<Ch(" ")>> \o NewLine : d \in FencedDocs} \cup
  {FenceJsonUpper \o <<Doc(d)>> : d \in FencedDocs} \cup
  { <<>>, <<Ch(" ")>>,
    <<Word("Here are some titles")>>,
    <<Word("Here you go:"), Ch(" "), Doc(TitlesABBC)>>,
    <<Ch(" "), Doc(TitlesABBC), Ch("\n")>>,
    FenceJson \o NewLine \o <<Word("no titles today")>> \o NewLine \o Fence,
    FenceJson \o NewLine \o Fence }

\* the texts tried in every response shape
FewTexts == {<<Doc(TitlesABBC)>>, <<Word("Here are some titles")>>}

PartsOf(texts) == Arr([i \in 1..Len(texts) |-> Obj(<< <<"text", texts[i]>> >>)])

Candidate(t) == Obj(<< <<"content", Obj(<< <<"parts", PartsOf(<<Text(t)>>)>> >>)>> >>)

\* the values the model call resolves to: the SDK's candidates shape with every
\* sample text, the other shapes extractText knows, and values of no known shape
ModelResponses ==
  {Obj(<< <<"candidates", Arr(<<Candidate(t)>>)>> >>) : t \in SampleTexts} \cup
  UNION {
    { Obj(<< <<"text", Fn(Text(t))>>, <<"outputText", Msg("ignored")>> >>),
      Obj(<< <<"response", Obj(<< <<"text", Fn(Text(t))>> >>)>> >>),
      Obj(<< <<"outputText", Text(t)>>, <<"candidates", Arr(<<Candidate(<<>>)>>)>> >>),
      Obj(<< <<"response", Obj(<< <<"candidates", Arr(<<Candidate(t)>>)>> >>)>> >>),
      Obj(<< <<"candidates", Arr(<<Obj(<< <<"content", Obj(<< <<"text", Text(t)>> >>)>> >>)>>)>> >>),
      Obj(<< <<"candidates", Arr(<<Obj(<< <<"text", Text(t)>> >>)>>)>> >>),
      Obj(<< <<"candidates", Arr(<<>>)>>,
             <<"content", Obj(<< <<"parts", PartsOf(<<Text(t)>>)>> >>)>> >>),
      Text(t) } : t \in FewTexts} \cup
  { Obj(<< <<"text", Fn(Throw)>> >>),
    Obj(<< <<"text", Fn(Num(5))>> >>),
    Obj(<< <<"response", Obj(<< <<"text", Fn(Undefined)>> >>)>> >>),
    Obj(<< <<"candidates", Arr(<<Null>>)>> >>),
    Obj(<< <<"candidates", Arr(<<Obj(<< <<"content", Obj(<< <<"parts",
             PartsOf(<<Text(<<Doc(TitlesABBC)>>), Text(<<>>), Text(<<Doc(Num(7))>>)>>)>> >>)>> >>)>>)>> >>),
    Obj(<< <<"content", Obj(<< <<"parts", PartsOf(<<Num(0), Num(7)>>)>> >>)>> >>),
    Obj(<< <<"titles", Str(<<"A", ",", "B">>)>> >>),
    Obj(<<>>),
    Undefined, Null, Num(3) }

\* the values the model call throws: errors with and without a message, a string
ThrownValues ==
  { Obj(<< <<"message", Msg("fetch failed")>> >>),
    Obj(<< <<"message", Text(<<>>)>> >>),
    Obj(<<>>),
    Msg("boom") }

\* ------------------------------------------------------------ text pipeline runs
TitlesOneTwo ==
  Obj(<< <<"titles", Str(<<"O", "n", "e", ",", " ", "T", "w", "o">>)>> >>)

\* the documents tried inside every fence
WrappedDocs == FencedDocs \cup {TitlesOneTwo, Null, Arr(<<Str(<<"a">>)>>)}

\* the opening markers: with json in either case or without, with a line break or not
OpeningFences ==
  {f \o nl : f \in {FenceJson, FenceJsonUpper, Fence,
                     Chars(<<Backtick, Backtick, Backtick, "J", "s", "o", "n">>)},
             nl \in {<<>>, NewLine}}

\* the closing markers: after a line break or not, white space behind them or not
ClosingFences ==
  {nl \o Fence \o sp : nl \in {<<>>, NewLine}, sp \in {<<>>, <<Ch(" ")>>, <<Ch(" ")>> \o NewLine}}

\* a document in every pairing of an opening and a closing marker, or in one only
FencedTexts ==
  {open \o <<Doc(d)>> \o close :
     open \in OpeningFences \cup {<<>>}, d \in WrappedDocs, close \in ClosingFences \cup {<<>>}}

TextA == Text(<<Word("A")>>)
TextB == Text(<<Word("B")>>)
TextC == Text(<<Word("C")>>)
TextD == <<Word("D")>>
TextE == Text(<<Word("E")>>)

\* the properties of a response that matches every shape at once, by priority
ShapeStack ==
  << <<"text", Fn(TextA)>>,
     <<"response", Obj(<< <<"text", Fn(TextB)>> >>)>>,
     <<"outputText", TextC>>,
     <<"candidates", Arr(<<Candidate(TextD)>>)>>,
     <<"content", Obj(<< <<"parts", PartsOf(<<TextE>>)>> >>)>> >>

\* responses that match several shapes at once
MixedResponses ==
  {Obj(SubSeq(ShapeStack, k, Len(ShapeStack))) : k \in 1..Len(ShapeStack)} \cup
  { Obj(<< <<"candidates", Arr(<<Null>>)>>,
           <<"content", Obj(<< <<"parts", PartsOf(<<TextE>>)>> >>)>> >>),
    Obj(<< <<"candidates", Arr(<<Obj(<< <<"content", Obj(<< <<"text", Text(<<>>)>> >>)>>,
                                        <<"text", TextA>> >>)>>)>> >>),
    Obj(<< <<"candidates", Arr(<<Obj(<< <<"content", Obj(<< <<"parts", PartsOf(<<Text(<<>>)>>)>>,
                                                            <<"text", TextA>> >>)>>,
                                        <<"text", TextB>> >>)>>)>> >>),
    Obj(<< <<"candidates", Arr(<<Obj(<< <<"content", Obj(<< <<"parts", Arr(<<>>)>> >>)>>,
                                        <<"text", TextB>> >>)>>)>>,
           <<"content", Obj(<< <<"parts", PartsOf(<<TextE>>)>> >>)>> >>),
    Obj(<< <<"response", Obj(<< <<"candidates", Arr(<<Candidate(TextD)>>)>> >>)>>,
           <<"candidates", Arr(<<Candidate(<<Word("F")>>)>>)>> >>),
    Obj(<< <<"candidates", Arr(<<Candidate(TextD), Candidate(<<Word("F")>>)>>)>> >>),
    Obj(<< <<"candidates", Arr(<<Obj(<< <<"content", Obj(<< <<"parts",
             PartsOf(<<TextA, Text(<<>>), Num(7), TextB>>)>> >>)>> >>)>>)>> >>),
    Obj(<< <<"text", Fn(Throw)>>, <<"outputText", TextC>> >>),
    Obj(<< <<"text", Fn(Text(<<>>))>>, <<"outputText", TextC>> >>),
    Obj(<< <<"text", TextA>>, <<"outputText", Num(1)>>,
           <<"content", Obj(<< <<"parts", PartsOf(<<TextE>>)>> >>)>> >>),
    Obj(<< <<"response", Null>>, <<"candidates", Null>>, <<"content", Null>> >>),
    Arr(<<TextA>>) }

\* the values handed to extractText
TextResponses ==
  ModelResponses \cup MixedResponses \cup {Text(t) : t \in SampleTexts \cup FencedTexts}

TextInit ==
  /\ modelResp \in TextResponses
  /\ extractor = "none"
  /\ extracted = Undefined
  /\ parsedValue = Null
  /\ textPhase = "input"
  /\ payload = Null
  /\ normalized = <<>>
  /\ renormalized = <<>>
  /\ phase = "input"
  /\ apiKey = Undefined
  /\ NoRequests
  /\ NoPage

\* const rawText = await extractText(response), public route
ExtractPublic ==
  /\ textPhase = "input"
  /\ extractor' = "public"
  /\ extracted' = extractText(modelResp)
  /\ textPhase' = "extracted"
  /\ UNCHANGED <<modelResp, parsedValue>>
  /\ UNCHANGED <<normVars, reqVars, pageVars>>

\* const text = await extractText(response), internal route
ExtractSuggest ==
  /\ textPhase = "input"
  /\ extractor' = "suggest"
  /\ extracted' = extractTextSuggest(modelResp)
  /\ textPhase' = "extracted"
  /\ UNCHANGED <<modelResp, parsedValue>>
  /\ UNCHANGED <<normVars, reqVars, pageVars>>

\* stripped = stripCodeFences(text); parsed = tryParseJson(stripped) ?? tryParseJson(text):
\* s.replace raises on a value that is no string
Decode ==
  /\ textPhase = "extracted"
  /\ IF IsText(extracted)
     THEN /\ parsedValue' = ParsedPayload(extracted)
          /\ textPhase' = "parsed"
     ELSE /\ textPhase' = "raised"
          /\ UNCHANGED parsedValue
  /\ UNCHANGED <<modelResp, extractor, extracted>>
  /\ UNCHANGED <<normVars, reqVars, pageVars>>

TextNext == ExtractPublic \/ ExtractSuggest \/ Decode

SpecText == TextInit /\ [][TextNext]_vars

\* ------------------------------------------------------------ requests
\* takes only an unset key for missing
MissingKeyUnsetOnly(key) == key = Undefined

\* if (!apiKey)
MissingKey(key) == ~Truthy(key)

Init ==
  /\ apiKey \in ApiKeys
  /\ NoRequests
  /\ payload = Null
  /\ normalized = <<>>
  /\ renormalized = <<>>
  /\ phase = "input"
  /\ NoText
  /\ NoPage

\* answers through a response slot shared by the handlers: every request that
\* waits for its model call gets the response too
FinishShared(r, response, ran) ==
  /\ responses' = [q \in DOMAIN responses |->
                     IF q = r \/ pc[q] = "awaiting" THEN Append(responses[q], response)
                     ELSE responses[q]]
  /\ steps' = [steps EXCEPT ![r] = @ \o ran]
  /\ pc' = [pc EXCEPT ![r] = "done"]
  /\ events' = Append(events, <<r, "respond">>)

\* the request ends with one response
Finish(r, response, ran) ==
  /\ responses' = [responses EXCEPT ![r] = Append(@, response)]
  /\ steps' = [steps EXCEPT ![r] = @ \o ran]
  /\ pc' = [pc EXCEPT ![r] = "done"]
  /\ events' = Append(events, <<r, "respond">>)

\* issues the call again after the first one
IssueCallRetry(r, prompt, ran) ==
  /\ calls' = [calls EXCEPT ![r] = @ \o << [model |-> ModelName, prompt |-> prompt],
                                           [model |-> ModelName, prompt |-> prompt] >>]
  /\ steps' = [steps EXCEPT ![r] = @ \o ran]
  /\ pc' = [pc EXCEPT ![r] = "awaiting"]
  /\ events' = Append(events, <<r, "call">>)
  /\ UNCHANGED responses

\* generateContent is called and the handler waits for it
IssueCall(r, prompt, ran) ==
  /\ calls' = [calls EXCEPT ![r] = Append(@, [model |-> ModelName, prompt |-> prompt])]
  /\ steps' = [steps EXCEPT ![r] = @ \o ran]
  /\ pc' = [pc EXCEPT ![r] = "awaiting"]
  /\ events' = Append(events, <<r, "call">>)
  /\ UNCHANGED responses

\* OPTIONS /api/public/titles
PublicOptions(r) ==
  /\ pc[r] = "idle"
  /\ route' = [route EXCEPT ![r] = "OPTIONS /api/public/titles"]
  /\ Finish(r, PreflightResponse, <<"respond">>)
  /\ UNCHANGED <<apiKey, reqBody, outcome, calls>>
  /\ UNCHANGED <<normVars, textVars, pageVars>>

\* POST /api/public/titles with one of the bodies, up to the await of the model call
PublicPostFrom(r, bodies) ==
  /\ pc[r] = "idle"
  /\ \E b \in bodies :
       /\ route' = [route EXCEPT ![r] = "POST /api/public/titles"]
       /\ reqBody' = [reqBody EXCEPT ![r] = b]
       /\ IF MissingKey(apiKey)
          THEN /\ Finish(r, JsonResponse(MissingKeyBody, 500, corsHeaders),
                         <<"credential-check", "respond">>)
               /\ UNCHANGED calls
          ELSE IssueCall(r, buildUserPrompt(PublicInput(ParseBody(b))),
                         <<"credential-check", "model-call">>)
  /\ UNCHANGED <<apiKey, outcome>>
  /\ UNCHANGED <<normVars, textVars, pageVars>>

PublicPost(r) == PublicPostFrom(r, PublicBodies)

\* each value the model call may resolve to, with what the public handler does
\* after the await for it
PublicAnswers(values) == {<<resp, PublicAfterCall(resp)>> : resp \in values}

\* the model call of a public request returns one of the values and the handler
\* runs to its end
PublicModelReturnsFrom(r, answers) ==
  /\ pc[r] = "awaiting"
  /\ route[r] = "POST /api/public/titles"
  /\ \E a \in answers :
       /\ outcome' = [outcome EXCEPT ![r] = <<"returned", a[1]>>]
       /\ Finish(r, a[2].response, a[2].steps)
  /\ UNCHANGED <<apiKey, route, reqBody, calls>>
  /\ UNCHANGED <<normVars, textVars, pageVars>>

PublicModelReturns(r) == PublicModelReturnsFrom(r, PublicAnswers(ModelResponses))

\* the model call of a public request throws one of the values: catch (err)
PublicModelThrowsFrom(r, values) ==
  /\ pc[r] = "awaiting"
  /\ route[r] = "POST /api/public/titles"
  /\ \E err \in values :
       /\ outcome' = [outcome EXCEPT ![r] = <<"threw", err>>]
       /\ Finish(r, PublicCatch(err), <<"respond">>)
  /\ UNCHANGED <<apiKey, route, reqBody, calls>>
  /\ UNCHANGED <<normVars, textVars, pageVars>>

PublicModelThrows(r) == PublicModelThrowsFrom(r, ThrownValues)

\* POST /api/suggest with one of the bodies, up to the await of the model call
SuggestPostFrom(r, bodies) ==
  /\ pc[r] = "idle"
  /\ \E b \in bodies :
       LET prompt == buildUserPrompt(SuggestInput(ParseBody(b)))
       IN /\ route' = [route EXCEPT ![r] = "POST /api/suggest"]
          /\ reqBody' = [reqBody EXCEPT ![r] = b]
          /\ IF MissingKey(apiKey)
             THEN /\ Finish(r, JsonResponse(MissingKeyBody, 500, {}),
                            <<"credential-check", "respond">>)
                  /\ UNCHANGED calls
             ELSE IF prompt = Throw
             THEN /\ Finish(r, SuggestCatch(NoJoinError), <<"credential-check", "respond">>)
                  /\ UNCHANGED calls
             ELSE IssueCall(r, prompt, <<"credential-check", "model-call">>)
  /\ UNCHANGED <<apiKey, outcome>>
  /\ UNCHANGED <<normVars, textVars, pageVars>>

SuggestPost(r) == SuggestPostFrom(r, SuggestBodies)

\* each value the model call may resolve to, with what the internal handler does
\* after the await for it
SuggestAnswers(values) == {<<resp, SuggestAfterCall(resp)>> : resp \in values}

\* the model call of an internal request returns one of the values and the handler
\* runs to its end
SuggestModelReturnsFrom(r, answers) ==
  /\ pc[r] = "awaiting"
  /\ route[r] = "POST /api/suggest"
  /\ \E a \in answers :
       /\ outcome' = [outcome EXCEPT ![r] = <<"returned", a[1]>>]
       /\ Finish(r, a[2].response, a[2].steps)
  /\ UNCHANGED <<apiKey, route, reqBody, calls>>
  /\ UNCHANGED <<normVars, textVars, pageVars>>

SuggestModelReturns(r) == SuggestModelReturnsFrom(r, SuggestAnswers(ModelResponses))

\* the model call of an internal request throws one of the values: catch (err)
SuggestModelThrowsFrom(r, values) ==
  /\ pc[r] = "awaiting"
  /\ route[r] = "POST /api/suggest"
  /\ \E err \in values :
       /\ outcome' = [outcome EXCEPT ![r] = <<"threw", err>>]
       /\ Finish(r, SuggestCatch(err), <<"respond">>)
  /\ UNCHANGED <<apiKey, route, reqBody, calls>>
  /\ UNCHANGED <<normVars, textVars, pageVars>>

SuggestModelThrows(r) == SuggestModelThrowsFrom(r, ThrownValues)

Next ==
  \E r \in Reqs :
    \/ PublicOptions(r)
    \/ PublicPost(r)
    \/ PublicModelReturns(r)
    \/ PublicModelThrows(r)
    \/ SuggestPost(r)
    \/ SuggestModelReturns(r)
    \/ SuggestModelThrows(r)

Spec == Init /\ [][Next]_vars

\* ------------------------------------------------------------ concurrent requests
Concurrent == 1..MaxConc

\* the values the model call resolves to in these runs: one for every exit of the
\* two handlers
ConcResponses ==
  { Obj(<< <<"candidates", Arr(<<Candidate(<<Doc(TitlesABBC)>>)>>)>> >>),
    Obj(<< <<"candidates", Arr(<<Candidate(<<Doc(Obj(<< <<"titles", Str(<<>>)>> >>))>>)>>)>> >>),
    Obj(<< <<"candidates", Arr(<<Candidate(<<Word("Here are some titles")>>)>>)>> >>),
    Obj(<< <<"candidates", Arr(<<Candidate(
             <<Doc(Obj(<< <<"titles", Arr(<<Obj(<< <<"toString", Num(1)>> >>)>>)>> >>))>>)>>)>> >>),
    Obj(<< <<"text", Fn(Num(5))>> >>) }

\* the body of the requests in these runs
ConcBodies == {FullBody}

\* the values the model call throws in these runs
ConcThrown == {Obj(<< <<"message", Msg("fetch failed")>> >>)}

\* what each handler does for each of these values
ConcPublicAnswers == PublicAnswers(ConcResponses)
ConcSuggestAnswers == SuggestAnswers(ConcResponses)

ConcInit ==
  /\ apiKey \in ApiKeys
  /\ NoneArrived(Concurrent)
  /\ payload = Null
  /\ normalized = <<>>
  /\ renormalized = <<>>
  /\ phase = "input"
  /\ NoText
  /\ NoPage

\* the model call of request r completes: it returns or it throws
ModelCompletes(r) ==
  \/ PublicModelReturnsFrom(r, ConcPublicAnswers)
  \/ PublicModelThrowsFrom(r, ConcThrown)
  \/ SuggestModelReturnsFrom(r, ConcSuggestAnswers)
  \/ SuggestModelThrowsFrom(r, ConcThrown)

ConcNext ==
  \E r \in Concurrent :
    \/ PublicOptions(r)
    \/ PublicPostFrom(r, ConcBodies)
    \/ SuggestPostFrom(r, ConcBodies)
    \/ ModelCompletes(r)

SpecConc == ConcInit /\ [][ConcNext]_vars

\* every model call that was issued completes
FairConc == SpecConc /\ \A r \in Concurrent : WF_vars(ModelCompletes(r))

\* ------------------------------------------------------------ the page
\* res.ok
IsOk(res) == res.status \in 200..299

\* res.headers.get("content-type") || ""
ContentTypeOf(res) ==
  IF \E h \in res.headers : h[1] = "content-type"
  THEN (CHOOSE h \in res.headers : h[1] = "content-type")[2]
  ELSE ""

\* contentType.includes("application/json"), on the content types of these runs
IncludesJson(ct) == ct \in {"application/json", "application/json; charset=utf-8"}

\* the message of new Error(v): a string as it is, String(v) of anything else
ErrorMessage(v) == IF Tag(v) \in {"str", "text"} THEN v ELSE ToText(v)

\* catch (err): setError(err?.message || "Unexpected error"), nothing else set
Caught(message) ==
  [error |-> Or(message, Msg("Unexpected error")), raw |-> Null, titles |-> <<>>]

\* data && (data.titles ?? data.suggestions)
TitlesField(data) ==
  IF ~Truthy(data) THEN data
  ELSE Coalesce(Get(data, "titles"), Get(data, "suggestions"))

\* the JSON branch of onSubmit after const data = await res.json()
JsonBranch(res, data) ==
  LET titlesField == TitlesField(data)
  IN IF ~IsOk(res) THEN
       Caught(ErrorMessage(Or(OptGet(data, "error"), Msg("Request failed"))))
     ELSE IF IsString(titlesField) THEN
       [error |-> Null, raw |-> Null,
        titles |-> NonEmpty([i \in 1..Len(Split(Val(titlesField), ",")) |->
                               Trim(Split(Val(titlesField), ",")[i])])]
     ELSE IF IsArray(titlesField) THEN
       IF LegacyArrayRaises(titlesField)
       THEN Caught(Msg("(intermediate value).trim is not a function"))
       ELSE [error |-> Null, raw |-> Null,
             titles |-> NonEmpty([i \in 1..Len(Val(titlesField)) |->
                                    LegacyElementTitle(Val(titlesField)[i])])]
     ELSE [error |-> Null, raw |-> data, titles |-> <<>>]

\* the other branch after const text = await res.text()
TextBranch(res, text) ==
  IF ~IsOk(res) THEN Caught(Or(text, Msg("Request failed")))
  ELSE [error |-> Null, raw |-> text, titles |-> <<>>]

\* what onSubmit sets after the fetch: the error, the raw response and the titles
onSubmit(f) ==
  IF f[1] = "rejected" THEN Caught(OptGet(f[2], "message"))
  ELSE IF IncludesJson(ContentTypeOf(f[2])) THEN JsonBranch(f[2], f[2].body[2])
  ELSE TextBranch(f[2], f[2].body[2])

\* responses that come from somewhere else than the handler: a page of the
\* framework, a proxy
OtherResponses ==
  { [status |-> 404, headers |-> {<<"content-type", "text/html">>},
     body |-> <<"plain", Msg("Not Found")>>],
    [status |-> 500, headers |-> {}, body |-> <<"plain", Text(<<>>)>>],
    [status |-> 200, headers |-> {}, body |-> <<"plain", Text(<<>>)>>],
    JsonResponse(Obj(<<>>), 400, {}),
    JsonResponse(Obj(<< <<"error", Str(<<>>)>> >>), 429, {}),
    JsonResponse(Obj(<< <<"titles", Arr(<<Obj(<< <<"title", Num(5)>> >>)>>)>> >>), 200, {}),
    JsonResponse(Obj(<< <<"titles", Arr(<<Str(<<" ">>), Null, Obj(<< <<"text", Str(<<"Z">>)>> >>)>>)>> >>),
                 200, {}),
    JsonResponse(Obj(<< <<"titles", Null>>, <<"suggestions", Str(<<"a", ",", " ", "b">>)>> >>),
                 200, {}) }

\* the responses of the internal handler: the 500 of a missing key, or else its
\* answer to one of the model responses or thrown values, or the 200 it gives for a
\* model text that decodes to one of the sample payloads
HandlerResponses ==
  IF MissingKey(apiKey) THEN {JsonResponse(MissingKeyBody, 500, {})}
  ELSE {SuggestAfterCall(resp).response : resp \in ModelResponses} \cup
       {SuggestCatch(err) : err \in ThrownValues} \cup
       {JsonResponse(d, 200, {}) : d \in SamplePayloads \ {Null}}

\* what await fetch("/api/suggest") gives: a response of the handler, another
\* response, or a rejection
PageFetches ==
  {<<"response", res>> : res \in HandlerResponses \cup OtherResponses} \cup
  {<<"rejected", err>> : err \in {Obj(<< <<"message", Msg("Failed to fetch")>> >>),
                                   Obj(<< <<"message", Text(<<>>)>> >>)}}

PageInit ==
  /\ apiKey \in ApiKeys
  /\ NoneArrived(Reqs)
  /\ payload = Null
  /\ normalized = <<>>
  /\ renormalized = <<>>
  /\ phase = "input"
  /\ NoText
  /\ NoPage

\* onSubmit up to the await of fetch; the button is disabled while loading
Submit ==
  /\ pagePc \in {"idle", "settled"}
  /\ pageError' = Null
  /\ loading' = TRUE
  /\ rawResponse' = Null
  /\ pageTitles' = <<>>
  /\ fetched' = <<"none">>
  /\ pagePc' = "fetching"
  /\ UNCHANGED <<normVars, reqVars, textVars>>

\* the fetch settles and onSubmit runs to its end, finally included
Settle ==
  /\ pagePc = "fetching"
  /\ \E f \in PageFetches :
       /\ fetched' = f
       /\ pageError' = onSubmit(f).error
       /\ rawResponse' = onSubmit(f).raw
       /\ pageTitles' = onSubmit(f).titles
  /\ loading' = FALSE
  /\ pagePc' = "settled"
  /\ UNCHANGED <<normVars, reqVars, textVars>>

PageNext == Submit \/ Settle

SpecPage == PageInit /\ [][PageNext]_vars

\* {error && <p>...}
ErrorShown == Truthy(pageError)

\* {titles.length > 0 && <Card>Titles...}
TitlesShown == Len(pageTitles) > 0

\* {titles.length === 0 && rawResponse !== null && <Card>AI Response...}
RawShown == Len(pageTitles) = 0 /\ rawResponse # Null

\* ------------------------------------------------------------ claims on normalization
\* the entries of the selected source value: the comma segments of a string, the
\* elements of an array, the one object
SourceEntryCount(json) ==
  LET src == SourceValue(json)
  IN IF IsString(src) THEN Len(Split(Val(src), ","))
     ELSE IF IsArray(src) THEN Len(Val(src))
     ELSE IF IsObjectLike(src) /\ IsString(TitleLikeField(src)) THEN 1
     ELSE 0

\* the text the k-th source entry contributes, before trimming and cutting
SourceEntryText(json, k) ==
  LET src == SourceValue(json)
  IN IF IsString(src) THEN Split(Val(src), ",")[k]
     ELSE IF IsArray(src) THEN ElementTitle(Val(src)[k])
     ELSE Val(TitleLikeField(src))

\* the title the k-th source entry produces: trimmed, cut to 45, trimmed again
SourceEntryTitle(json, k) == Trim(Slice(Trim(SourceEntryText(json, k)), 45))

IsBlank(t) == \A i \in 1..Len(t) : t[i] \in WhiteSpace

\* C1: every string of the list normalizeTitlesFromJson returns has at most 45
\* characters, whatever the shape of the payload
LengthBound ==
  phase # "input" => \A i \in 1..Len(normalized) : Len(normalized[i]) <= 45

\* a source entry longer than 45 characters came out with exactly 45
LengthBoundWitness ==
  /\ phase = "normalized"
  /\ \E k \in 1..SourceEntryCount(payload) :
       /\ Len(Trim(SourceEntryText(payload, k))) > 45
       /\ \E i \in 1..Len(normalized) :
            Len(normalized[i]) = 45 /\ normalized[i] = SourceEntryTitle(payload, k)

\* C2: the returned list never holds two equal strings at different positions
Uniqueness ==
  phase # "input" =>
    \A i, j \in 1..Len(normalized) : i # j => normalized[i] # normalized[j]

\* two different source entries became equal only by the cut, a third pair only by
\* trimming, and the list holds the title once
UniquenessWitness ==
  /\ phase = "normalized"
  /\ \E k, m \in 1..SourceEntryCount(payload) :
       /\ k # m
       /\ Trim(SourceEntryText(payload, k)) # Trim(SourceEntryText(payload, m))
       /\ SourceEntryTitle(payload, k) = SourceEntryTitle(payload, m)
       /\ Len(SourceEntryTitle(payload, k)) > 0
       /\ Cardinality({i \in 1..Len(normalized) :
                         normalized[i] = SourceEntryTitle(payload, k)}) = 1

\* C3: no string of the returned list is empty or white space only
NoEmpty ==
  phase # "input" =>
    \A i \in 1..Len(normalized) : Len(normalized[i]) > 0 /\ ~IsBlank(normalized[i])

\* a title whose 45th character is white space was cut and trimmed again, and is
\* in the list, shorter than 45 and not empty
NoEmptyWitness ==
  /\ phase = "normalized"
  /\ \E k \in 1..SourceEntryCount(payload) :
       LET t == Trim(SourceEntryText(payload, k))
       IN /\ Len(t) > 45
          /\ t[45] \in WhiteSpace
          /\ \E i \in 1..Len(normalized) :
               /\ normalized[i] = SourceEntryTitle(payload, k)
               /\ Len(normalized[i]) \in 1..44

\* C4: normalizing the returned list again, as an array of strings under titles,
\* returns the same list in the same order
Idempotence == phase = "renormalized" => renormalized = normalized

\* the second pass ran on a list of several titles, one of them cut and re-trimmed
IdempotenceWitness ==
  /\ phase = "renormalized"
  /\ Len(normalized) >= 2
  /\ \E k \in 1..SourceEntryCount(payload) :
       LET t == Trim(SourceEntryText(payload, k))
       IN /\ Len(t) > 45
          /\ t[45] \in WhiteSpace
          /\ \E i \in 1..Len(normalized) : normalized[i] = SourceEntryTitle(payload, k)

\* the first source entry that produces title t, 0 when none does
FirstEntry(json, t) ==
  LET from == {k \in 1..SourceEntryCount(json) : SourceEntryTitle(json, k) = t}
  IN IF from = {} THEN 0 ELSE CHOOSE k \in from : \A m \in from : k <= m

\* C5: the returned list holds the trimmed, cut titles of the source entries in the
\* order of their first occurrence: every title comes from an entry, every entry
\* with a non-empty title is in the list, and a title listed before another one
\* first occurs before it in the source
OrderPreservation ==
  phase # "input" =>
    /\ \A i \in 1..Len(normalized) : FirstEntry(payload, normalized[i]) > 0
    /\ \A k \in 1..SourceEntryCount(payload) :
         SourceEntryTitle(payload, k) # <<>> =>
           \E i \in 1..Len(normalized) : normalized[i] = SourceEntryTitle(payload, k)
    /\ \A i, j \in 1..Len(normalized) :
         i < j => FirstEntry(payload, normalized[i]) < FirstEntry(payload, normalized[j])

\* a title occurs, another one follows, the first occurs again: the list holds the
\* two in the order of their first entries
OrderPreservationWitness ==
  /\ phase = "normalized"
  /\ Len(normalized) = 2
  /\ \E k, m, n \in 1..SourceEntryCount(payload) :
       /\ k < m /\ m < n
       /\ SourceEntryTitle(payload, k) = normalized[1]
       /\ SourceEntryTitle(payload, m) = normalized[2]
       /\ SourceEntryTitle(payload, n) = normalized[1]

\* the entries of seq that occur for the first time, in their order
IsFirstOccurrences(list, seq) ==
  LET firsts == {i \in 1..Len(seq) : \A j \in 1..(i - 1) : seq[j] # seq[i]}
  IN /\ Len(list) = Cardinality(firsts)
     /\ \A i \in firsts : list[Cardinality({j \in firsts : j <= i})] = seq[i]

\* the property of the payload, undefined when the payload is no object
FieldOf(json, key) == IF Tag(json) = "obj" THEN Get(json, key) ELSE Undefined

\* C16: normalizeTitlesFromJson reads the titles field of the payload and uses
\* suggestions only when titles is absent (missing or null); when the selected
\* value is a string the list is its comma-separated segments, trimmed, the empty
\* ones dropped, cut to 45 and deduplicated in first-occurrence order:
\* {"titles": "A, B, B, C"} gives ["A","B","C"] and {"titles": ""} the empty list
StringPath ==
  phase # "input" =>
    LET selected == IF IsNullish(FieldOf(payload, "titles"))
                    THEN FieldOf(payload, "suggestions")
                    ELSE FieldOf(payload, "titles")
        segs == Split(Val(selected), ",")
        kept == SelectSeq([i \in 1..Len(segs) |-> Trim(segs[i])], LAMBDA t : t # <<>>)
        cut == [i \in 1..Len(kept) |-> Trim(Slice(kept[i], 45))]
    IN /\ IsString(selected) => IsFirstOccurrences(normalized, cut)
       /\ FieldOf(payload, "titles") = Str(<<"A", ",", " ", "B", ",", " ", "B", ",", " ", "C">>)
            => normalized = << <<"A">>, <<"B">>, <<"C">> >>
       /\ FieldOf(payload, "titles") = Str(<<>>) => normalized = <<>>
       /\ (~IsNullish(FieldOf(payload, "titles")) /\ ~IsObjectLike(FieldOf(payload, "titles"))
           /\ ~IsString(FieldOf(payload, "titles"))) => normalized = <<>>

\* the payload has titles and suggestions, two different strings, and the list is
\* the one title of titles
StringPathWitness ==
  /\ phase = "normalized"
  /\ IsString(FieldOf(payload, "titles"))
  /\ IsString(FieldOf(payload, "suggestions"))
  /\ Val(FieldOf(payload, "titles")) # Val(FieldOf(payload, "suggestions"))
  /\ normalized = <<Trim(Val(FieldOf(payload, "titles")))>>

\* the candidate title an array element contributes
ContributedTitle(s) ==
  LET fields == SelectSeq(<<"title", "text", "suggestion">>,
                          LAMBDA key : ~IsNullish(FieldOf(s, key)))
      strings == SelectSeq(ObjectValues(s), IsString)
  IN IF IsString(s) THEN Trim(Val(s))
     ELSE IF ~IsObjectLike(s) THEN Trim(ToStr(s))
     ELSE IF fields # <<>> /\ IsString(FieldOf(s, fields[1])) THEN Trim(Val(FieldOf(s, fields[1])))
     ELSE IF strings # <<>> THEN Trim(Val(strings[1]))
     ELSE Trim(ToStr(s))

\* C17: when the selected value is an array, each element contributes one
\* candidate title: a string itself, trimmed; an object the first present field among
\* title, text, suggestion, failing that its first string-valued property in key
\* order, failing that its stringification; any other element its stringification.
\* Normalizing an array never raises, whatever JSON types its elements have, and
\* {"titles": ["X", {"title": "Y"}, {"text": "Z"}]} gives ["X","Y","Z"]
ArrayPath ==
  (phase # "input" /\ IsArray(FieldOf(payload, "titles"))) =>
    LET src == Val(FieldOf(payload, "titles"))
        kept == SelectSeq([i \in 1..Len(src) |-> ContributedTitle(src[i])], LAMBDA t : t # <<>>)
        cut == [i \in 1..Len(kept) |-> Trim(Slice(kept[i], 45))]
    IN /\ phase \notin {"raised", "legacy raised"}
       /\ IsFirstOccurrences(normalized, cut)
       /\ payload = TitlesXYZ => normalized = << <<"X">>, <<"Y">>, <<"Z">> >>

\* ------------------------------------------------------------ claims on the endpoints
PublicPostRoute == "POST /api/public/titles"
SuggestPostRoute == "POST /api/suggest"
PublicOptionsRoute == "OPTIONS /api/public/titles"

\* request r has been answered
Answered(r) == pc[r] = "done" /\ Len(responses[r]) = 1

TheResponse(r) == responses[r][1]

\* the JSON body of the response of r
JsonBody(r) == TheResponse(r).body[2]

IsJsonBody(r) == TheResponse(r).body[1] = "json"

\* the model call of r returned
Returned(r) == outcome[r][1] = "returned"

\* the text the public route extracts from the response the model returned to r
RawTextOf(r) == extractText(outcome[r][2])

\* a text is valid JSON when, white space apart, it is exactly one document
IsJsonText(t) ==
  \E i \in 1..Len(t) :
    /\ t[i][1] = "j"
    /\ \A k \in 1..Len(t) : k # i => IsSpace(t[k])

JsonValueOf(t) == t[CHOOSE i \in 1..Len(t) : t[i][1] = "j"][2]

\* the text decodes as JSON, after fence stripping or as it is
Decodes(raw) ==
  IsText(raw) /\ (IsJsonText(stripCodeFences(Val(raw))) \/ IsJsonText(Val(raw)))

Decoded(raw) ==
  IF IsJsonText(stripCodeFences(Val(raw))) THEN JsonValueOf(stripCodeFences(Val(raw)))
  ELSE JsonValueOf(Val(raw))

\* the credential is present
KeyPresent == apiKey # Undefined /\ apiKey # Text(<<>>)

AsStrings(titles) == Arr([i \in 1..Len(titles) |-> Str(titles[i])])

\* C6: a POST to the public endpoint is answered 200 exactly when the credential is
\* present, the model call returned, the text decodes as JSON and normalization
\* returns a list that is not empty; the body then holds that list as titles, its
\* length as meta.count, meta.maxLength 45 and meta.model "gemini-2.5-flash", and
\* never an empty titles list
PublicSuccess ==
  \A r \in Reqs :
    (route[r] = PublicPostRoute /\ Answered(r)) =>
      LET ok == /\ KeyPresent
                /\ Returned(r)
                /\ Decodes(RawTextOf(r))
                /\ ~NormalizeRaises(Decoded(RawTextOf(r)))
                /\ normalizeTitlesFromJson(Decoded(RawTextOf(r))) # <<>>
      IN /\ (TheResponse(r).status = 200) <=> ok
         /\ TheResponse(r).status = 200 =>
              LET titles == normalizeTitlesFromJson(Decoded(RawTextOf(r)))
              IN /\ IsJsonBody(r)
                 /\ Get(JsonBody(r), "titles") = AsStrings(titles)
                 /\ Val(Get(JsonBody(r), "titles")) # <<>>
                 /\ Get(Get(JsonBody(r), "meta"), "count") = Num(Len(titles))
                 /\ Get(Get(JsonBody(r), "meta"), "maxLength") = Num(45)
                 /\ Get(Get(JsonBody(r), "meta"), "model") = Msg("gemini-2.5-flash")

\* a public request was answered 200 with three titles out of a fenced text
PublicSuccessWitness ==
  \E r \in Reqs :
    /\ route[r] = PublicPostRoute /\ Answered(r) /\ Returned(r)
    /\ TheResponse(r).status = 200
    /\ Get(Get(JsonBody(r), "meta"), "count") = Num(3)
    /\ IsText(RawTextOf(r))
    /\ ~IsJsonText(Val(RawTextOf(r)))

\* C7: when the text extracted on the public endpoint is valid JSON neither after
\* fence stripping nor as it is, the answer is 502 with the error "Model returned
\* non-JSON output" and the extracted text as raw, and normalization does not run
MalformedOutput ==
  \A r \in Reqs :
    (/\ route[r] = PublicPostRoute /\ Answered(r) /\ Returned(r)
     /\ IsText(RawTextOf(r))
     /\ ~IsJsonText(stripCodeFences(Val(RawTextOf(r))))
     /\ ~IsJsonText(Val(RawTextOf(r)))) =>
      /\ TheResponse(r).status = 502
      /\ IsJsonBody(r)
      /\ Get(JsonBody(r), "error") = Msg("Model returned non-JSON output")
      /\ Get(JsonBody(r), "raw") = RawTextOf(r)
      /\ \A i \in 1..Len(steps[r]) : steps[r][i] # "normalize"

\* prose around a document: no JSON, answered 502 with the text as raw
MalformedOutputWitness ==
  \E r \in Reqs :
    /\ route[r] = PublicPostRoute /\ Answered(r) /\ Returned(r)
    /\ IsText(RawTextOf(r))
    /\ \E i \in 1..Len(Val(RawTextOf(r))) : Val(RawTextOf(r))[i][1] = "j"
    /\ ~IsJsonText(stripCodeFences(Val(RawTextOf(r))))
    /\ ~IsJsonText(Val(RawTextOf(r)))
    /\ TheResponse(r).status = 502
    /\ Get(JsonBody(r), "raw") = RawTextOf(r)

\* C8: whenever the text extracted on the public endpoint is valid JSON, a value of
\* any type, and no title can be extracted from it, the answer is 502 with the
\* error "No titles produced" and the parsed payload as raw
EmptyResult ==
  \A r \in Reqs :
    (/\ route[r] = PublicPostRoute /\ Answered(r) /\ Returned(r)
     /\ Decodes(RawTextOf(r))
     /\ normalizeTitlesFromJson(Decoded(RawTextOf(r))) = <<>>) =>
      /\ TheResponse(r).status = 502
      /\ IsJsonBody(r)
      /\ Get(JsonBody(r), "error") = Msg("No titles produced")
      /\ Get(JsonBody(r), "raw") = Decoded(RawTextOf(r))

\* C9: with the credential unset or empty, a POST to either endpoint is answered
\* 500 with an error naming GEMINI_API_KEY, whatever its body, and no model call
\* is issued for it
MissingCredential ==
  ~KeyPresent =>
    \A r \in Reqs :
      /\ calls[r] = <<>>
      /\ pc[r] # "awaiting"
      /\ (route[r] \in {PublicPostRoute, SuggestPostRoute} /\ pc[r] = "done") =>
           /\ Len(responses[r]) = 1
           /\ TheResponse(r).status = 500
           /\ IsJsonBody(r)
           /\ Get(JsonBody(r), "error") = Msg("Missing GEMINI_API_KEY environment variable")

\* the key is the empty string and a request whose body is no JSON got the 500
MissingCredentialWitness ==
  /\ apiKey = Text(<<>>)
  /\ \E r \in Reqs :
       /\ route[r] \in {PublicPostRoute, SuggestPostRoute}
       /\ reqBody[r] = <<"unparseable">>
       /\ Answered(r)
       /\ TheResponse(r).status = 500
       /\ calls[r] = <<>>

\* C10: every response of the public endpoint carries the three CORS headers; an
\* OPTIONS request is answered 204 with them and no body, with no credential
\* check and no model call
CorsInvariant ==
  \A r \in Reqs :
    route[r] \in {PublicPostRoute, PublicOptionsRoute} =>
      /\ \A i \in 1..Len(responses[r]) :
           /\ <<"Access-Control-Allow-Origin", "*">> \in responses[r][i].headers
           /\ <<"Access-Control-Allow-Methods", "POST, OPTIONS">> \in responses[r][i].headers
           /\ <<"Access-Control-Allow-Headers", "Content-Type, Authorization">>
                \in responses[r][i].headers
      /\ route[r] = PublicOptionsRoute =>
           /\ Answered(r)
           /\ TheResponse(r).status = 204
           /\ TheResponse(r).body = <<"none">>
           /\ calls[r] = <<>>
           /\ steps[r] = <<"respond">>

\* the model call of a public request threw and the 500 carries the headers
CorsInvariantWitness ==
  \E r \in Reqs :
    /\ route[r] = PublicPostRoute /\ Answered(r)
    /\ outcome[r][1] = "threw"
    /\ TheResponse(r).status = 500
    /\ <<"Access-Control-Allow-Origin", "*">> \in TheResponse(r).headers

\* ------------------------------------------------------------ claims on the internal endpoint and on failures
\* the model call of r threw
Threw(r) == outcome[r][1] = "threw"

\* the text the internal route extracts from the response the model returned to r
SuggestTextOf(r) == extractTextSuggest(outcome[r][2])

\* C11: on POST /api/suggest, whenever the credential is present and the model call
\* returned, the answer is 200: when the extracted text decodes as JSON the body is
\* the decoded value as it is, otherwise the body is the extracted text with a
\* text/plain content type
InternalLeniency ==
  \A r \in Reqs :
    (route[r] = SuggestPostRoute /\ Answered(r) /\ Returned(r) /\ KeyPresent) =>
      /\ TheResponse(r).status = 200
      /\ Decodes(SuggestTextOf(r)) =>
           /\ IsJsonBody(r)
           /\ JsonBody(r) = Decoded(SuggestTextOf(r))
      /\ ~Decodes(SuggestTextOf(r)) =>
           /\ TheResponse(r).body = <<"plain", SuggestTextOf(r)>>
           /\ <<"content-type", "text/plain; charset=utf-8">> \in TheResponse(r).headers

\* the message of the exception the model call of r threw
ThrownMessage(r) == Get(outcome[r][2], "message")

\* C12: on both endpoints, when the model call throws an exception with message m,
\* the answer is 500 with the body {error: m}, with the CORS headers on the public
\* endpoint; no extraction, decoding or normalization step runs, the call is not
\* issued again and the request ends with that one response
UpstreamFailure ==
  \A r \in Reqs :
    (/\ route[r] \in {PublicPostRoute, SuggestPostRoute}
     /\ pc[r] = "done" /\ Threw(r)
     /\ HasOwn(outcome[r][2], "message") /\ IsText(ThrownMessage(r))) =>
      /\ Len(responses[r]) = 1
      /\ TheResponse(r).status = 500
      /\ IsJsonBody(r)
      /\ JsonBody(r) = ErrorBody(ThrownMessage(r))
      /\ route[r] = PublicPostRoute => corsHeaders \subseteq TheResponse(r).headers
      /\ \A i \in 1..Len(steps[r]) :
           steps[r][i] \notin {"text-extraction", "json-decode", "normalize"}
      /\ Len(calls[r]) = 1

\* ------------------------------------------------------------ claims on the text pipeline
\* C13: for every model response value, extractText of either route returns a
\* string and never raises, so the handler goes on to fence stripping and decoding
ExtractorTotality ==
  textPhase # "input" => (IsText(extracted) /\ textPhase # "raised")

\* the text of a callable text property, when the call gives a string
CalledText(v) ==
  IF IsObjectLike(v) /\ IsFunction(Get(v, "text")) /\ IsText(Val(Get(v, "text")))
  THEN Val(Get(v, "text")) ELSE Undefined

\* a string that is not blank, else nothing
SomeText(v) == IF IsText(v) /\ NotBlank(Val(v)) THEN v ELSE Undefined

\* the string fragments of a parts list joined with line breaks, when there are any
Fragments(parts) ==
  IF IsArray(parts) /\ Truthy(JoinedParts(parts)) THEN JoinedParts(parts) ELSE Undefined

\* the text of the first element of a candidates array: the fragments of
\* content.parts, else content.text, else text
FirstCandidateText(candidates) ==
  IF ~IsArray(candidates) \/ Val(candidates) = <<>> THEN Undefined
  ELSE LET first == First(candidates)
           content == OptGet(first, "content")
       IN Coalesce(Coalesce(Fragments(OptGet(content, "parts")),
                            SomeText(OptGet(content, "text"))),
                   SomeText(OptGet(first, "text")))

\* the result of the first strategy, in the fixed order, that yields a text
ByPriority(resp) ==
  LET nested == OptGet(resp, "response")
      candidates == Or(OptGet(nested, "candidates"), OptGet(resp, "candidates"))
      outputText == IF IsText(OptGet(resp, "outputText")) THEN OptGet(resp, "outputText")
                    ELSE Undefined
      self == IF IsText(resp) THEN resp ELSE Undefined
  IN Coalesce(CalledText(resp),
     Coalesce(CalledText(nested),
     Coalesce(outputText,
     Coalesce(FirstCandidateText(candidates),
     Coalesce(Fragments(OptGet(OptGet(resp, "content"), "parts")),
     Coalesce(self, JsonStringify(resp)))))))

\* C14: extractText of either route returns the result of the highest-priority
\* strategy that succeeds, in the order: callable text, callable response.text,
\* string outputText, first candidate (fragments of content.parts joined with line
\* breaks, else content.text, else text), top-level content.parts, the response
\* itself when it is a string, the JSON serialization of the response
ExtractorPriority ==
  (/\ textPhase # "input"
   /\ IsObjectLike(modelResp)
   /\ \A v \in {modelResp, OptGet(modelResp, "response")} :
        (IsObjectLike(v) /\ IsFunction(Get(v, "text"))) => IsText(Val(Get(v, "text")))) =>
    extracted = ByPriority(modelResp)

\* the text is a document inside an opening marker, a closing marker or both
IsFenced(t, d) ==
  \E open \in OpeningFences \cup {<<>>}, close \in ClosingFences \cup {<<>>} :
    /\ open \o close # <<>>
    /\ t = open \o <<Doc(d)>> \o close

Pipeline(r) ==
  IF route[r] = PublicPostRoute
  THEN <<"credential-check", "model-call", "text-extraction", "json-decode", "normalize">>
  ELSE <<"credential-check", "model-call", "text-extraction", "json-decode">>

\* the steps run so far are the first k steps of the pipeline
RanFirst(r, k) == k <= Len(Pipeline(r)) /\ steps[r] = SubSeq(Pipeline(r), 1, k)

\* the steps run are the first k steps of the pipeline and then respond
RanFirstAndResponded(r, k) ==
  k <= Len(Pipeline(r)) /\ steps[r] = Append(SubSeq(Pipeline(r), 1, k), "respond")

\* the state of one request is a stretch of the one line of steps
LinearSteps ==
  \A r \in DOMAIN pc :
    /\ Len(calls[r]) <= 1
    /\ Len(responses[r]) <= 1
    /\ (Len(responses[r]) = 1) <=> (pc[r] = "done")
    /\ pc[r] = "idle" => (steps[r] = <<>> /\ calls[r] = <<>>)
    /\ pc[r] = "awaiting" => (RanFirst(r, 2) /\ Len(calls[r]) = 1)
    /\ (pc[r] = "done" /\ route[r] = PublicOptionsRoute) => steps[r] = <<"respond">>
    /\ (pc[r] = "done" /\ route[r] # PublicOptionsRoute) =>
         /\ \E k \in 1..Len(Pipeline(r)) : RanFirstAndResponded(r, k)
         /\ (Len(calls[r]) = 1) <=> (\E i \in 1..Len(steps[r]) : steps[r][i] = "model-call")
         /\ TheResponse(r).status = 200 => RanFirstAndResponded(r, Len(Pipeline(r)))
         /\ ~RanFirstAndResponded(r, Len(Pipeline(r))) => TheResponse(r).status \in {500, 502}

\* C18: every request on either endpoint runs the steps credential-check,
\* model-call, text-extraction, json-decode, normalize (public only), respond
\* strictly in that order, leaves the line by at most one failure exit, issues the
\* model call at most once and ends in exactly one response; when its model call
\* completes, the request reaches its response
LinearRequest ==
  /\ []LinearSteps
  /\ \A r \in Concurrent : (pc[r] = "awaiting") ~> (pc[r] = "done" /\ Len(responses[r]) = 1)

\* one request ran the whole line to a 200 and another, the model call thrown, left
\* it after the call
LinearRequestWitness ==
  \E r, q \in DOMAIN pc :
    /\ r # q
    /\ route[r] = PublicPostRoute /\ pc[r] = "done"
    /\ RanFirstAndResponded(r, 5) /\ TheResponse(r).status = 200
    /\ route[q] = SuggestPostRoute /\ pc[q] = "done" /\ Threw(q)
    /\ RanFirstAndResponded(q, 2) /\ TheResponse(q).status = 500

\* what belongs to request r
OwnState(r) == <<route[r], reqBody[r], pc[r], outcome[r], calls[r], steps[r], responses[r]>>

\* two requests on the same route with the same body and the same outcome of the
\* model call have the same calls, steps and responses
SameInputsSameAnswer ==
  \A r, q \in DOMAIN pc :
    (/\ route[r] = route[q] /\ reqBody[r] = reqBody[q]
     /\ pc[r] = pc[q] /\ outcome[r] = outcome[q]) =>
      (calls[r] = calls[q] /\ steps[r] = steps[q] /\ responses[r] = responses[q])

\* a step changes what belongs to one request and nothing else
OnlyOwnState ==
  /\ apiKey' = apiKey
  /\ \E r \in DOMAIN pc : \A q \in DOMAIN pc \ {r} : OwnState(q)' = OwnState(q)

\* C19: when requests are handled concurrently and interleave at the model call in
\* any order, the response to each is a function of its own body, the credential
\* and the model response returned to it, and no handler reads or writes what
\* belongs to another request
Independence == []SameInputsSameAnswer /\ [][OnlyOwnState]_vars

\* the position of an event in the history, 0 when it did not happen
EventAt(r, kind) ==
  IF \E i \in 1..Len(events) : events[i] = <<r, kind>>
  THEN CHOOSE i \in 1..Len(events) : events[i] = <<r, kind>>
  ELSE 0

\* two requests on the same endpoint with the same body were in flight at once, the
\* one called later was answered first, and each got the answer of its own model
\* response
IndependenceWitness ==
  \E r, q \in DOMAIN pc :
    /\ route[r] = PublicPostRoute /\ route[q] = PublicPostRoute
    /\ reqBody[r] = reqBody[q]
    /\ 0 < EventAt(r, "call") /\ EventAt(r, "call") < EventAt(q, "call")
    /\ EventAt(q, "call") < EventAt(q, "respond")
    /\ EventAt(q, "respond") < EventAt(r, "respond")
    /\ Returned(r) /\ Returned(q)
    /\ TheResponse(r).status = 200
    /\ TheResponse(q).status = 502

\* ------------------------------------------------------------ claims on the page
\* C20: after any submission finishes, loading is false and the page shows a
\* non-empty title list, the AI Response panel or an error message
Feedback ==
  pagePc = "settled" => (~loading /\ (TitlesShown \/ RawShown \/ ErrorShown))
====
